---- MODULE Spec2Model ----
(***************************************************************************)
(* Deferred expressions of narwhals/expr.py.                               *)
(*                                                                         *)
(* An Expr holds one closure, `_call`, from a compliant namespace to a     *)
(* compliant expression.  The model keeps every object the program has     *)
(* built in `heap`; a closure is stored as the data it captured (the       *)
(* shape of the lambda, the backend method it names, the object it closed  *)
(* over and the arguments), and Call applies it to a namespace the way the *)
(* lambda body does.  The backend is outside the module: every backend     *)
(* call returns a term recording its receiver, method and arguments, and   *)
(* the calls of one evaluation are logged in the order Python makes them.  *)
(***************************************************************************)
EXTENDS Integers, Sequences, FiniteSets, TLC

VARIABLES
    heap,      \* the objects built so far: Expr, Then and When instances
    result,    \* outcome of the last operation: what it returned or raised,
               \* and the backend calls it made, in order
    threads    \* the evaluation passes running step by step, one per thread

vars == <<heap, result, threads>>

(* ------------------------------- bounds ------------------------------- *)

MaxNodes == 2
MaxWhenNodes == 5
MaxArgNodes == 2
MaxAliasNodes == 5
MaxSubNodes == 4
MaxThreadNodes == 3
MaxFrames == 3
MaxOrderNodes == 5
MaxClassNodes == 5
MaxCharges == 2

(* --------------------------- Python values ---------------------------- *)
\* Every value is a record [cls, n, s, items]; cls is the Python class, and
\* "ref" is a reference to heap[n] (whose class is heap[n].cls).

PyNone == [cls |-> "NoneType", n |-> 0, s |-> "", items |-> <<>>]
PyInt(n) == [cls |-> "int", n |-> n, s |-> "", items |-> <<>>]
PyStr(s) == [cls |-> "str", n |-> 0, s |-> s, items |-> <<>>]
PyBytes(s) == [cls |-> "bytes", n |-> 0, s |-> s, items |-> <<>>]
PyList(items) == [cls |-> "list", n |-> 0, s |-> "", items |-> items]
PyRef(id) == [cls |-> "ref", n |-> id, s |-> "", items |-> <<>>]
PyBool(b) == [cls |-> "bool", n |-> IF b THEN 1 ELSE 0, s |-> "", items |-> <<>>]
PyTuple(items) == [cls |-> "tuple", n |-> 0, s |-> "", items |-> items]
\* a dict: its items() in insertion order, each a (key, value) tuple
PyDict(pairs) == [cls |-> "dict", n |-> 0, s |-> "", items |-> pairs]

PyFloat(s) == [cls |-> "float", n |-> 0, s |-> s, items |-> <<>>]
\* a numpy array
PyNdarray(items) == [cls |-> "ndarray", n |-> 0, s |-> "", items |-> items]

\* narwhals.dependencies.is_numpy_array
is_numpy_array(v) == v.cls = "ndarray"

\* a compliant series, as a backend hands it out
CompliantSeries(name) == [cls |-> "CompliantSeries", n |-> 0, s |-> name, items |-> <<>>]
\* narwhals.series.Series: a realized column wrapping `_compliant_series`
PySeries(name) == [cls |-> "Series", n |-> 0, s |-> name, items |-> <<CompliantSeries(name)>>]

\* the compliant namespace object `plx` of backend ns
Namespace(ns) == [cls |-> "Namespace", n |-> ns, s |-> "", items |-> <<>>]

Namespaces == {1, 2}

\* receiver.method(*args) on the backend: the compliant object it returns.
\* items[1] is the receiver, the rest are the arguments as passed.
BackendCall(recv, method, args) ==
    [cls |-> "Compliant", n |-> recv.n, s |-> method, items |-> <<recv>> \o args]

\* recv.<sub>: the namespace-scoped sub-object (str, dt, cat, name) of a
\* compliant expression.  items[1] is the expression it belongs to.
BackendAttr(recv, sub) ==
    [cls |-> "CompliantSub", n |-> recv.n, s |-> sub, items |-> <<recv>>]

ClassOf(h, v) == IF v.cls = "ref" THEN h[v.n].cls ELSE v.cls

\* isinstance(v, Expr); Then subclasses Expr
IsExpr(h, v) == v.cls = "ref" /\ h[v.n].cls \in {"Expr", "Then"}

\* isinstance(v, narwhals.series.Series)
IsSeries(v) == v.cls = "Series"

\* isinstance(v, Iterable): the class defines __iter__
IsIterable(v) == v.cls \in {"list", "tuple", "str", "bytes", "dict"}

\* isinstance(v, Mapping)
IsMapping(v) == v.cls = "dict"

\* list(d.keys()) and list(d.values()): parallel, in insertion order
Keys(d) == PyList([i \in 1..Len(d.items) |-> d.items[i].items[1]])
DictValues(d) == PyList([i \in 1..Len(d.items) |-> d.items[i].items[2]])

\* narwhals.utils.flatten: a single iterable argument stands for its items
flatten(args) ==
    IF Len(args) = 0 THEN <<>>
    ELSE IF Len(args) = 1 /\ args[1].cls \in {"list", "tuple"} THEN args[1].items
    ELSE args

(* ------------------------------ closures ------------------------------ *)
\* The shapes of the lambdas of expr.py:
\*   "ns"          plx.method(*args)
\*   "ns_flat"     plx.method(*flatten(args))
\*   "ns_resolve"  plx.method(*[extract_compliant(plx, v) for v in flatten(args)])
\*   "raw"         self._call(plx).method(*args)
\*   "resolve"     self._call(plx).method(extract_compliant(plx, args[1]))
\*   "filter"      self._call(plx).filter(*[extract_compliant(plx, p) for p in flatten(args)])
\*   "then"        plx.when(*self._extract_predicates(plx)).then(extract_compliant(plx, args[1]))
\*   "concat_str"  plx.concat_str([extract_compliant(plx, v) for v in flatten([exprs])],
\*                                *[extract_compliant(plx, v) for v in more_exprs],
\*                                separator=separator, ignore_nulls=ignore_nulls)
\*                 with args = <<exprs, tuple(more_exprs), separator, ignore_nulls>>
\*   "str", "dt", "cat", "name"
\*                 self._expr._call(plx).<shape>.method(*args), self being the
\*                 wrapper's _expr
\*   "when"        no closure: a When, args are its _predicates
\*   "wrapper"     no closure: an Expr*Namespace, self is its _expr

Obj(cls, shape, method, self, args) ==
    [cls |-> cls, shape |-> shape, method |-> method, self |-> self, args |-> args]

Ret(val, log) == [val |-> val, log |-> log]

RECURSIVE Call(_, _, _)
RECURSIVE extract_compliant_mut(_, _, _)
RECURSIVE extract_compliant(_, _, _)
RECURSIVE ResolveAll(_, _, _)
RECURSIVE When_extract_predicates_mut(_, _, _)
RECURSIVE When_extract_predicates(_, _, _)

\* a faulty resolver: a nested node is left as it is
extract_compliant_mut(h, plx, other) ==
    IF IsSeries(other) THEN Ret(other.items[1], <<>>)
    ELSE Ret(other, <<>>)

extract_compliant(h, plx, other) ==
    IF IsExpr(h, other) THEN Call(h, other.n, plx)
    ELSE IF IsSeries(other) THEN Ret(other.items[1], <<>>)
    ELSE Ret(other, <<>>)

\* [extract_compliant(plx, v) for v in operands], left to right
ResolveAll(h, plx, operands) ==
    IF Len(operands) = 0 THEN [vals |-> <<>>, log |-> <<>>]
    ELSE LET r == extract_compliant(h, plx, Head(operands))
             rest == ResolveAll(h, plx, Tail(operands))
         IN [vals |-> <<r.val>> \o rest.vals, log |-> r.log \o rest.log]

\* a faulty _extract_predicates: only the first predicate is used
When_extract_predicates_mut(h, self, plx) ==
    ResolveAll(h, plx, IF Len(h[self].args) = 0 THEN <<>> ELSE <<Head(h[self].args)>>)

\* When._extract_predicates(plx)
When_extract_predicates(h, self, plx) == ResolveAll(h, plx, h[self].args)

\* heap[id]._call(plx): the compliant expression and the backend calls made
Call(h, id, plx) ==
    LET c == h[id] IN
    CASE c.shape = "ns" ->
            LET t == BackendCall(Namespace(plx), c.method, c.args)
            IN Ret(t, <<t>>)
      [] c.shape = "ns_flat" ->
            LET t == BackendCall(Namespace(plx), c.method, flatten(c.args))
            IN Ret(t, <<t>>)
      [] c.shape = "ns_resolve" ->
            LET a == ResolveAll(h, plx, flatten(c.args))
                t == BackendCall(Namespace(plx), c.method, a.vals)
            IN Ret(t, a.log \o <<t>>)
      [] c.shape = "raw" ->
            LET r == Call(h, c.self, plx)
                t == BackendCall(r.val, c.method, c.args)
            IN Ret(t, r.log \o <<t>>)
      [] c.shape = "resolve" ->
            LET r == Call(h, c.self, plx)
                a == extract_compliant(h, plx, c.args[1])
                t == BackendCall(r.val, c.method, <<a.val>>)
            IN Ret(t, r.log \o a.log \o <<t>>)
      [] c.shape = "filter" ->
            LET r == Call(h, c.self, plx)
                a == ResolveAll(h, plx, flatten(c.args))
                t == BackendCall(r.val, c.method, a.vals)
            IN Ret(t, r.log \o a.log \o <<t>>)
      [] c.shape = "then" ->
            LET p == When_extract_predicates(h, c.self, plx)
                w == BackendCall(Namespace(plx), "when", p.vals)
                v == extract_compliant(h, plx, c.args[1])
                t == BackendCall(w, "then", <<v.val>>)
            IN Ret(t, p.log \o <<w>> \o v.log \o <<t>>)
      [] c.shape \in {"str", "dt", "cat", "name"} ->
            LET r == Call(h, c.self, plx)
                t == BackendCall(BackendAttr(r.val, c.shape), c.method, c.args)
            IN Ret(t, r.log \o <<t>>)
      [] c.shape = "concat_str" ->
            LET a == ResolveAll(h, plx, flatten(<<c.args[1]>>))
                b == ResolveAll(h, plx, c.args[2].items)
                t == BackendCall(Namespace(plx), "concat_str",
                                 <<PyList(a.vals)>> \o b.vals \o <<c.args[3], c.args[4]>>)
            IN Ret(t, a.log \o b.log \o <<t>>)

(* ------------------------ outcomes of operations ---------------------- *)

\* kind: "none" | "node" (ref is the object returned) | "raise" (err is the
\* exception class) | "value" (val is the compliant expression of an evaluation
\* of heap[ref] on namespace ns); log: the backend calls the operation made
NoResult ==
    [kind |-> "none", op |-> "", self |-> 0, args |-> <<>>, ref |-> 0, err |-> "", ns |-> 0,
     val |-> PyNone, log |-> <<>>]

\* an operation's outcome: the heap after it, what it returned or raised,
\* and the backend calls it made
Out(h, res, log) == [heap |-> h, res |-> res, log |-> log]

\* a faulty constructor: the closure is invoked as soon as it is stored
New_mut(h, obj) ==
    Out(Append(h, obj), [NoResult EXCEPT !.kind = "node", !.ref = Len(h) + 1],
        IF obj.cls = "When" THEN <<>> ELSE Call(Append(h, obj), Len(h) + 1, 1).log)

\* cls(closure): __init__ stores the closure; a new object, returned
New(h, obj) ==
    Out(Append(h, obj), [NoResult EXCEPT !.kind = "node", !.ref = Len(h) + 1], <<>>)

\* the calls of `log` that landed on namespace ns
Count(log, ns) == Cardinality({i \in 1..Len(log) : log[i].n = ns})

Raise(h, err) == Out(h, [NoResult EXCEPT !.kind = "raise", !.err = err], <<>>)

(* ----------------------- top-level constructors ----------------------- *)

col(h, names) == New(h, Obj("Expr", "ns_flat", "col", 0, names))

nth(h, indices) == New(h, Obj("Expr", "ns_flat", "nth", 0, indices))

all_(h) == New(h, Obj("Expr", "ns", "all", 0, <<>>))

len_(h) == New(h, Obj("Expr", "ns", "len", 0, <<>>))

\* sum, mean, median, min, max: Expr(lambda plx: plx.<m>(*columns))
agg(h, m, columns) == New(h, Obj("Expr", "ns", m, 0, columns))

\* a faulty sum_horizontal: the emptiness check is missing
sum_horizontal_mut(h, exprs) ==
    New(h, Obj("Expr", "ns_resolve", "sum_horizontal", 0, exprs))

sum_horizontal(h, exprs) ==
    IF Len(exprs) = 0 THEN Raise(h, "ValueError")
    ELSE New(h, Obj("Expr", "ns_resolve", "sum_horizontal", 0, exprs))

min_horizontal(h, exprs) ==
    IF Len(exprs) = 0 THEN Raise(h, "ValueError")
    ELSE New(h, Obj("Expr", "ns_resolve", "min_horizontal", 0, exprs))

max_horizontal(h, exprs) ==
    IF Len(exprs) = 0 THEN Raise(h, "ValueError")
    ELSE New(h, Obj("Expr", "ns_resolve", "max_horizontal", 0, exprs))

all_horizontal(h, exprs) ==
    IF Len(exprs) = 0 THEN Raise(h, "ValueError")
    ELSE New(h, Obj("Expr", "ns_resolve", "all_horizontal", 0, exprs))

any_horizontal(h, exprs) ==
    IF Len(exprs) = 0 THEN Raise(h, "ValueError")
    ELSE New(h, Obj("Expr", "ns_resolve", "any_horizontal", 0, exprs))

mean_horizontal(h, exprs) ==
    IF Len(exprs) = 0 THEN Raise(h, "ValueError")
    ELSE New(h, Obj("Expr", "ns_resolve", "mean_horizontal", 0, exprs))

HorizontalOps ==
    {"sum_horizontal", "min_horizontal", "max_horizontal",
     "all_horizontal", "any_horizontal", "mean_horizontal"}

horizontal(h, m, exprs) ==
    CASE m = "sum_horizontal" -> sum_horizontal(h, exprs)
      [] m = "min_horizontal" -> min_horizontal(h, exprs)
      [] m = "max_horizontal" -> max_horizontal(h, exprs)
      [] m = "all_horizontal" -> all_horizontal(h, exprs)
      [] m = "any_horizontal" -> any_horizontal(h, exprs)
      [] m = "mean_horizontal" -> mean_horizontal(h, exprs)

\* concat_str(exprs, *more_exprs, separator=..., ignore_nulls=...)
concat_str(h, exprs, more_exprs, separator, ignore_nulls) ==
    New(h, Obj("Expr", "concat_str", "concat_str", 0,
               <<exprs, PyTuple(more_exprs), PyStr(separator), PyBool(ignore_nulls)>>))

\* When(*predicates): _predicates = flatten([predicates])
when(h, predicates) ==
    New(h, Obj("When", "when", "", 0,
               flatten(<<[cls |-> "tuple", n |-> 0, s |-> "", items |-> predicates]>>)))

(* ----------------------------- Expr methods --------------------------- *)

\* a faulty alias: a receiver that is already an alias keeps its name
Expr_alias_first(h, self, name) ==
    New(h, IF h[self].method = "alias" THEN h[self]
           ELSE Obj(h[self].cls, "raw", "alias", self, <<PyStr(name)>>))

Expr_alias(h, self, name) ==
    New(h, Obj(h[self].cls, "raw", "alias", self, <<PyStr(name)>>))

\* a faulty cast: the closure composes with the call the receiver was built
\* from, so the receiver's own step is lost
Expr_cast_skip(h, self, dtype) ==
    New(h, Obj(h[self].cls, "raw", "cast",
               IF h[self].self # 0 THEN h[self].self ELSE self, <<PyStr(dtype)>>))

\* a faulty cast: the receiver's own closure is overwritten and returned
Expr_cast_mut(h, self, dtype) ==
    LET moved == Len(h) + 1 IN
    Out(Append([h EXCEPT ![self] =
                   Obj(h[self].cls, "raw", "cast", moved, <<PyStr(dtype)>>)],
               h[self]),
        [NoResult EXCEPT !.kind = "node", !.ref = self], <<>>)

Expr_cast(h, self, dtype) ==
    New(h, Obj(h[self].cls, "raw", "cast", self, <<PyStr(dtype)>>))

\* __eq__ .. __rmod__ share one body: the other operand goes through
\* extract_compliant.  The model draws the operator from three of them.
BinaryOps == {"__add__", "__rsub__", "__lt__"}

\* a faulty operator: the new node is always a plain Expr
Expr_binop_plain(h, op, self, other) ==
    New(h, Obj("Expr", "resolve", op, self, <<other>>))

Expr_binop(h, op, self, other) ==
    New(h, Obj(h[self].cls, "resolve", op, self, <<other>>))

Expr_invert(h, self) == New(h, Obj(h[self].cls, "raw", "__invert__", self, <<>>))

\* the methods without arguments (any, all, mean, ..., mode) share one body:
\* self.__class__(lambda plx: self._call(plx).<m>()).  The model draws two.
NoArgMethods == {"sum", "is_null"}

Expr_noarg(h, m, self) == New(h, Obj(h[self].cls, "raw", m, self, <<>>))

Expr_is_between(h, self, lower_bound, upper_bound, closed) ==
    New(h, Obj(h[self].cls, "raw", "is_between", self,
               <<lower_bound, upper_bound, PyStr(closed)>>))

\* a faulty is_in: a string counts as an iterable of candidates
Expr_is_in_mut(h, self, other) ==
    IF IsIterable(other) /\ other.cls \notin {"bytes"}
    THEN New(h, Obj(h[self].cls, "raw", "is_in", self, <<other>>))
    ELSE Raise(h, "NotImplementedError")

Expr_is_in(h, self, other) ==
    IF IsIterable(other) /\ other.cls \notin {"str", "bytes"}
    THEN New(h, Obj(h[self].cls, "raw", "is_in", self, <<other>>))
    ELSE Raise(h, "NotImplementedError")

Expr_filter(h, self, predicates) ==
    New(h, Obj(h[self].cls, "filter", "filter", self, predicates))

\* a faulty fill_null: the check that one of the two is given is missing
Expr_fill_null_mut(h, self, value, strategy, limit) ==
    IF value # PyNone /\ strategy # PyNone THEN Raise(h, "ValueError")
    ELSE IF strategy # PyNone /\ strategy \notin {PyStr("forward"), PyStr("backward")}
    THEN Raise(h, "ValueError")
    ELSE New(h, Obj(h[self].cls, "raw", "fill_null", self, <<value, strategy, limit>>))

Expr_fill_null(h, self, value, strategy, limit) ==
    IF value # PyNone /\ strategy # PyNone THEN Raise(h, "ValueError")
    ELSE IF value = PyNone /\ strategy = PyNone THEN Raise(h, "ValueError")
    ELSE IF strategy # PyNone /\ strategy \notin {PyStr("forward"), PyStr("backward")}
    THEN Raise(h, "ValueError")
    ELSE New(h, Obj(h[self].cls, "raw", "fill_null", self, <<value, strategy, limit>>))

\* a faulty replace_strict: a mapping is forwarded as it is
Expr_replace_strict_mut(h, self, old, new, return_dtype) ==
    IF new = PyNone /\ ~IsMapping(old) THEN Raise(h, "TypeError")
    ELSE New(h, Obj(h[self].cls, "raw", "replace_strict", self,
                    <<old, new, return_dtype>>))

\* a faulty replace_strict: the check of `old` is missing, and a value that
\* is not a mapping is forwarded with new = None
Expr_replace_strict_nocheck(h, self, old, new, return_dtype) ==
    IF new = PyNone /\ IsMapping(old)
    THEN New(h, Obj(h[self].cls, "raw", "replace_strict", self,
                    <<Keys(old), DictValues(old), return_dtype>>))
    ELSE New(h, Obj(h[self].cls, "raw", "replace_strict", self,
                    <<old, new, return_dtype>>))

Expr_replace_strict(h, self, old, new, return_dtype) ==
    IF new = PyNone
    THEN IF ~IsMapping(old) THEN Raise(h, "TypeError")
         ELSE New(h, Obj(h[self].cls, "raw", "replace_strict", self,
                         <<Keys(old), DictValues(old), return_dtype>>))
    ELSE New(h, Obj(h[self].cls, "raw", "replace_strict", self,
                    <<old, new, return_dtype>>))

Expr_clip(h, self, lower_bound, upper_bound) ==
    New(h, Obj(h[self].cls, "raw", "clip", self, <<lower_bound, upper_bound>>))

(* ---------------------------- sub-namespaces -------------------------- *)
\* expr.str, expr.dt, expr.cat, expr.name: a wrapper whose _expr is the node

WrapperClasses ==
    {"ExprStringNamespace", "ExprDateTimeNamespace", "ExprCatNamespace",
     "ExprNameNamespace"}

\* the backend sub-object the methods of a wrapper class go to
SubOf(cls) ==
    CASE cls = "ExprStringNamespace" -> "str"
      [] cls = "ExprDateTimeNamespace" -> "dt"
      [] cls = "ExprCatNamespace" -> "cat"
      [] cls = "ExprNameNamespace" -> "name"

Expr_str(h, self) == New(h, Obj("ExprStringNamespace", "wrapper", "", self, <<>>))

Expr_dt(h, self) == New(h, Obj("ExprDateTimeNamespace", "wrapper", "", self, <<>>))

Expr_cat(h, self) == New(h, Obj("ExprCatNamespace", "wrapper", "", self, <<>>))

Expr_name(h, self) == New(h, Obj("ExprNameNamespace", "wrapper", "", self, <<>>))

\* a faulty method: the new object is of the wrapper's class, self.__class__
Namespace_forward_mut(h, self, m, args) ==
    New(h, Obj(h[self].cls, SubOf(h[self].cls), m, h[self].self, args))

\* the methods that pass their arguments on under their own name share one
\* body: self._expr.__class__(lambda plx: self._expr._call(plx).<sub>.<m>(*args))
Namespace_forward(h, self, m, args) ==
    New(h, Obj(h[h[self].self].cls, SubOf(h[self].cls), m, h[self].self, args))

ExprStringNamespace_slice(h, self, offset, length) ==
    New(h, Obj(h[h[self].self].cls, "str", "slice", h[self].self, <<offset, length>>))

ExprStringNamespace_head(h, self, n) ==
    New(h, Obj(h[h[self].self].cls, "str", "slice", h[self].self, <<PyInt(0), PyInt(n)>>))

ExprStringNamespace_tail(h, self, n) ==
    New(h, Obj(h[h[self].self].cls, "str", "slice", h[self].self, <<PyInt(-n)>>))

ExprDateTimeNamespace_replace_time_zone(h, self, time_zone) ==
    New(h, Obj(h[h[self].self].cls, "dt", "replace_time_zone", h[self].self,
               <<time_zone>>))

\* a faulty convert_time_zone: None is forwarded like any zone
ExprDateTimeNamespace_convert_time_zone_mut(h, self, time_zone) ==
    New(h, Obj(h[h[self].self].cls, "dt", "convert_time_zone", h[self].self,
               <<time_zone>>))

ExprDateTimeNamespace_convert_time_zone(h, self, time_zone) ==
    IF time_zone = PyNone THEN Raise(h, "TypeError")
    ELSE New(h, Obj(h[h[self].self].cls, "dt", "convert_time_zone", h[self].self,
                    <<time_zone>>))

\* a faulty timestamp: seconds are let through as well
ExprDateTimeNamespace_timestamp_mut(h, self, time_unit) ==
    IF time_unit \notin {PyStr("ns"), PyStr("us"), PyStr("ms"), PyStr("s")}
    THEN Raise(h, "ValueError")
    ELSE New(h, Obj(h[h[self].self].cls, "dt", "timestamp", h[self].self, <<time_unit>>))

ExprDateTimeNamespace_timestamp(h, self, time_unit) ==
    IF time_unit \notin {PyStr("ns"), PyStr("us"), PyStr("ms")}
    THEN Raise(h, "ValueError")
    ELSE New(h, Obj(h[h[self].self].cls, "dt", "timestamp", h[self].self, <<time_unit>>))

\* timestamp(time_unit="us"): the unit of a call, given or defaulted
TimeUnitOf(args) == IF Len(args) = 0 THEN PyStr("us") ELSE args[1]

\* Expr.sample: the backend receives (n, fraction=, with_replacement=, seed=),
\* kept here in that order
Expr_sample(h, self, n, fraction, with_replacement, seed) ==
    New(h, Obj(h[self].cls, "raw", "sample", self,
               <<n, fraction, with_replacement, seed>>))

\* a faulty lit: only lists are taken for nested values
lit_mut(h, value, dtype) ==
    IF is_numpy_array(value) THEN Raise(h, "ValueError")
    ELSE IF value.cls = "list" THEN Raise(h, "NotImplementedError")
    ELSE New(h, Obj("Expr", "ns", "lit", 0, <<value, dtype>>))

lit(h, value, dtype) ==
    IF is_numpy_array(value) THEN Raise(h, "ValueError")
    ELSE IF value.cls \in {"list", "tuple"} THEN Raise(h, "NotImplementedError")
    ELSE New(h, Obj("Expr", "ns", "lit", 0, <<value, dtype>>))

(* -------------------------- conditional builder ----------------------- *)

When_then(h, self, value) == New(h, Obj("Then", "then", "then", self, <<value>>))

\* a faulty otherwise: the result is still a Then
Then_otherwise_mut(h, self, value) ==
    New(h, Obj(h[self].cls, "resolve", "otherwise", self, <<value>>))

Then_otherwise(h, self, value) ==
    New(h, Obj("Expr", "resolve", "otherwise", self, <<value>>))

\* obj.<method>(...) where only the classes in `classes` define the method
GetAttr(h, self, classes, out) ==
    IF h[self].cls \in classes THEN out ELSE Raise(h, "AttributeError")

(* ------------------------------- actions ------------------------------ *)

\* one construction operation of the program: `self` is the object it is
\* called on (0 for a top-level function), `args` its arguments; its outcome
\* becomes the state
DoWithin(bound, op, self, args, out) ==
    /\ Len(heap) < bound
    /\ heap' = out.heap
    /\ result' = [out.res EXCEPT !.op = op, !.self = self, !.args = args,
                                 !.log = out.log]
    /\ UNCHANGED threads

Do(op, self, args, out) == DoWithin(MaxNodes, op, self, args, out)

Objects == 1..Len(heap)
Nodes == {i \in Objects : heap[i].cls \in {"Expr", "Then"}}
Refs == {PyRef(i) : i \in Objects}

Literals == {PyInt(5)}
\* what a caller may pass as an operand: a node, a realized Series, a literal
Operands == Refs \cup {PySeries("s")} \cup Literals

Col == Do("col", 0, <<PyStr("a")>>, col(heap, <<PyStr("a")>>))

Nth == Do("nth", 0, <<PyInt(0)>>, nth(heap, <<PyInt(0)>>))

All == Do("all", 0, <<>>, all_(heap))

LenRows == Do("len", 0, <<>>, len_(heap))

Agg == \E m \in {"sum", "max"} : Do(m, 0, <<PyStr("a")>>, agg(heap, m, <<PyStr("a")>>))

Horizontal ==
    \E m \in HorizontalOps, exprs \in {<<>>, <<PyList(<<>>)>>} \cup {<<v>> : v \in Refs} :
        Do(m, 0, exprs, horizontal(heap, m, exprs))

WhenOp == \E p \in Refs \cup Literals : Do("when", 0, <<p>>, when(heap, <<p>>))

Then == \E self \in {i \in Objects : heap[i].cls = "When"}, v \in Literals :
    Do("then", self, <<v>>, When_then(heap, self, v))

Alias == \E self \in Nodes :
    Do("alias", self, <<PyStr("x")>>, Expr_alias(heap, self, "x"))

Cast == \E self \in Nodes :
    Do("cast", self, <<PyStr("Int64")>>, Expr_cast(heap, self, "Int64"))

Binary == \E self \in Nodes, op \in BinaryOps, other \in Operands :
    Do(op, self, <<other>>, Expr_binop(heap, op, self, other))

Invert == \E self \in Nodes : Do("__invert__", self, <<>>, Expr_invert(heap, self))

NoArg == \E self \in Nodes, m \in NoArgMethods :
    Do(m, self, <<>>, Expr_noarg(heap, m, self))

IsBetween == \E self \in Nodes, lo \in Refs \cup Literals :
    Do("is_between", self, <<lo, PyInt(9), PyStr("both")>>,
       Expr_is_between(heap, self, lo, PyInt(9), "both"))

IsInArgs(self) ==
    {PyStr("ab"), PyBytes("ab"), PyInt(5), PyList(<<PyInt(1), PyInt(2)>>),
     PyRef(self), PyList(<<PyRef(self)>>)}

IsIn == \E self \in Nodes : \E other \in IsInArgs(self) :
    Do("is_in", self, <<other>>, Expr_is_in(heap, self, other))

Filter == \E self \in Nodes, p \in Refs \cup Literals :
    Do("filter", self, <<p>>, Expr_filter(heap, self, <<p>>))

FillValues(self) == {PyNone, PyInt(0), PyRef(self)}
Strategies == {PyNone, PyStr("forward"), PyStr("backward"), PyStr("zero")}

FillNull == \E self \in Nodes : \E value \in FillValues(self), strategy \in Strategies :
    Do("fill_null", self, <<value, strategy, PyNone>>,
       Expr_fill_null(heap, self, value, strategy, PyNone))

Clip == \E self \in Nodes, lo \in Refs \cup Literals :
    Do("clip", self, <<lo, PyNone>>, Expr_clip(heap, self, lo, PyNone))

\* an evaluation pass: the driver supplies a namespace and invokes _call
EvaluateOn(nss) ==
    \E id \in Nodes, plx \in nss :
        LET r == Call(heap, id, plx) IN
        /\ result' = [NoResult EXCEPT !.kind = "value", !.op = "evaluate",
                                     !.ref = id, !.ns = plx,
                                     !.val = r.val, !.log = r.log]
        /\ UNCHANGED <<heap, threads>>

Evaluate == EvaluateOn(Namespaces)

\* a thread that evaluates nothing
\* invoked: the nodes whose _call the pass has invoked, in order; err: the
\* exception the pass ended with; raised, failedAt: the exception a backend
\* call raised and the number of calls attempted by then
Idle ==
    [ns |-> 0, root |-> 0, stack |-> <<>>, log |-> <<>>, val |-> PyNone, done |-> FALSE,
     invoked |-> <<>>, err |-> "", raised |-> "", failedAt |-> 0]

ThreadIds == {1, 2}

Init ==
    /\ heap = <<>>
    /\ result = NoResult
    /\ threads = [t \in ThreadIds |-> Idle]

Next ==
    \/ Col \/ Nth \/ All \/ LenRows \/ Agg \/ Horizontal
    \/ WhenOp \/ Then
    \/ Alias \/ Cast \/ Binary \/ Invert \/ NoArg
    \/ IsBetween \/ IsIn \/ Filter \/ FillNull \/ Clip
    \/ Evaluate

Spec == Init /\ [][Next]_vars

(* --------------------------- reference backend ------------------------ *)
\* What a backend computes from the calls it received, row by row, over a
\* frame.  A cell is <<>> (null) or <<v>>; a boolean is 1 or 0.

Frames == {[a |-> <<1, 2, 3>>], [a |-> <<2, 4, 1>>]}

Null == <<>>

Rows(f) == 1..Len(f.a)

RECURSIVE Interp(_, _)

\* the column of an argument: a compliant column, or a scalar on every row
ArgColumn(v, f) ==
    IF v.cls = "Compliant" THEN Interp(v, f).vals
    ELSE IF v.cls = "int" THEN [i \in Rows(f) |-> <<v.n>>]
    ELSE [i \in Rows(f) |-> Null]

\* the column a compliant object stands for: its name, its cells, and for a
\* when/then object the rows on which the condition holds
Interp(t, f) ==
    LET recv == Interp(t.items[1], f)
        arg(j) == ArgColumn(t.items[j + 1], f)
        nargs == Len(t.items) - 1
    IN CASE t.s = "col" ->
              [name |-> t.items[2].s,
               vals |-> [i \in Rows(f) |-> <<f[t.items[2].s][i]>>],
               cond |-> [i \in Rows(f) |-> 0]]
         [] t.s = "__lt__" ->
              [recv EXCEPT !.vals = [i \in Rows(f) |->
                  IF recv.vals[i] = Null \/ arg(1)[i] = Null THEN Null
                  ELSE IF recv.vals[i][1] < arg(1)[i][1] THEN <<1>> ELSE <<0>>]]
         [] t.s = "when" ->
              LET c == [i \in Rows(f) |->
                          IF \A j \in 1..nargs : arg(j)[i] = <<1>> THEN 1 ELSE 0]
              IN [name |-> "literal", vals |-> [i \in Rows(f) |-> <<c[i]>>], cond |-> c]
         [] t.s = "then" ->
              [name |-> "literal",
               vals |-> [i \in Rows(f) |-> IF recv.cond[i] = 1 THEN arg(1)[i] ELSE Null],
               cond |-> recv.cond]
         [] t.s = "otherwise" ->
              [recv EXCEPT !.vals = [i \in Rows(f) |->
                  IF recv.cond[i] = 1 THEN recv.vals[i] ELSE arg(1)[i]]]
         [] t.s = "alias" -> [recv EXCEPT !.name = t.items[2].s]
         \* a cast converts the cells and keeps the name (the outputs of the
         \* docstring of Expr.cast keep the names "foo" and "bar")
         [] t.s = "cast" ->
              [recv EXCEPT !.vals = [i \in Rows(f) |->
                  IF recv.vals[i] = Null THEN Null
                  ELSE IF t.items[2].s = "Boolean"
                       THEN <<IF recv.vals[i][1] # 0 THEN 1 ELSE 0>>
                       ELSE recv.vals[i]]]
         [] OTHER -> [name |-> "", vals |-> [i \in Rows(f) |-> Null],
                      cond |-> [i \in Rows(f) |-> 0]]

(* ------------------- the conditional builder, in depth ---------------- *)
\* when(...).then(...).otherwise(...) over comparisons of a column, evaluated
\* on one namespace.

DoW(op, self, args, out) == DoWithin(MaxWhenNodes, op, self, args, out)

Cols == {i \in Objects : heap[i].method = "col"}
Preds == {i \in Objects : heap[i].method = "__lt__"}
Values(n) == {PyInt(n)} \cup {PyRef(c) : c \in Cols}

\* one reference to the column is enough here: a second col("a") is an equal node
WCol == Cols = {} /\ DoW("col", 0, <<PyStr("a")>>, col(heap, <<PyStr("a")>>))

WLess == \E self \in Cols, n \in {2, 3} :
    DoW("__lt__", self, <<PyInt(n)>>, Expr_binop(heap, "__lt__", self, PyInt(n)))

WWhen ==
    \E preds \in {<<PyRef(p)>> : p \in Preds}
                  \cup {<<PyRef(p), PyRef(q)>> : p \in Preds, q \in Preds} :
        DoW("when", 0, preds, when(heap, preds))

WThen == \E self \in Objects, v \in Values(5) :
    DoW("then", self, <<v>>, GetAttr(heap, self, {"When"}, When_then(heap, self, v)))

WOtherwise == \E self \in Objects, w \in Values(6) :
    DoW("otherwise", self, <<w>>,
        GetAttr(heap, self, {"Then"}, Then_otherwise(heap, self, w)))

WAlias == \E self \in Nodes :
    DoW("alias", self, <<PyStr("x")>>, Expr_alias(heap, self, "x"))

WEvaluate == EvaluateOn({1})

NextWhen == WCol \/ WLess \/ WWhen \/ WThen \/ WOtherwise \/ WAlias \/ WEvaluate

SpecWhen == Init /\ [][NextWhen]_vars

(* ------------------------ chains of alias and cast -------------------- *)
\* alias and cast composed in every order over one column.

DoN(op, self, args, out) == DoWithin(MaxAliasNodes, op, self, args, out)

NCol == Cols = {} /\ DoN("col", 0, <<PyStr("a")>>, col(heap, <<PyStr("a")>>))

NAlias == \E self \in Nodes, name \in {"x", "y"} :
    DoN("alias", self, <<PyStr(name)>>, Expr_alias(heap, self, name))

NCast == \E self \in Nodes :
    DoN("cast", self, <<PyStr("Boolean")>>, Expr_cast(heap, self, "Boolean"))

NEvaluate == EvaluateOn({1})

NextAlias == NCol \/ NAlias \/ NCast \/ NEvaluate

SpecAlias == Init /\ [][NextAlias]_vars

(* ----------------------- reference backend: strings ------------------ *)
\* A string is a sequence of characters.  str.slice(offset, length): a
\* negative offset counts from the end, a missing length means to the end.

Strings == {<<>>, <<"a">>, <<"a", "b", "c">>}

Min(a, b) == IF a <= b THEN a ELSE b
Max(a, b) == IF a >= b THEN a ELSE b

StrSlice(s, offset, length) ==
    LET start == IF offset >= 0 THEN Min(offset, Len(s)) ELSE Max(Len(s) + offset, 0)
        stop == IF length = PyNone THEN Len(s) ELSE Min(start + length.n, Len(s))
    IN SubSeq(s, start + 1, stop)

\* what the str.slice call t makes of string s
ApplySlice(t, s) ==
    StrSlice(s, t.items[2].n, IF Len(t.items) >= 3 THEN t.items[3] ELSE PyNone)

(* --------------------- the sub-namespace wrappers --------------------- *)
\* expr.str / dt / cat / name and their methods, over a column and over a
\* Then, evaluated on one namespace.

DoS(op, self, args, out) == DoWithin(MaxSubNodes, op, self, args, out)

Wrappers == {i \in Objects : heap[i].shape = "wrapper"}
WrappersOf(cls) == {i \in Wrappers : heap[i].cls = cls}

SCol == Cols = {} /\ DoS("col", 0, <<PyStr("a")>>, col(heap, <<PyStr("a")>>))

SWhen == /\ \A i \in Objects : heap[i].cls # "When"
         /\ DoS("when", 0, <<PyBool(TRUE)>>, when(heap, <<PyBool(TRUE)>>))

SThen == \E self \in {i \in Objects : heap[i].cls = "When"} :
    DoS("then", self, <<PyInt(5)>>, When_then(heap, self, PyInt(5)))

\* a second wrapper of one class on one node is an equal object
Fresh(self, cls) == \A w \in WrappersOf(cls) : heap[w].self # self

Str == \E self \in Nodes :
    Fresh(self, "ExprStringNamespace") /\ DoS("str", self, <<>>, Expr_str(heap, self))

Dt == \E self \in Nodes :
    Fresh(self, "ExprDateTimeNamespace") /\ DoS("dt", self, <<>>, Expr_dt(heap, self))

Cat == \E self \in Nodes :
    Fresh(self, "ExprCatNamespace") /\ DoS("cat", self, <<>>, Expr_cat(heap, self))

Name == \E self \in Nodes :
    Fresh(self, "ExprNameNamespace") /\ DoS("name", self, <<>>, Expr_name(heap, self))

\* some of the forwarding methods of each wrapper class, with arguments
ForwardCalls(cls) ==
    CASE cls = "ExprStringNamespace" ->
            {[m |-> "len_chars", args |-> <<>>],
             [m |-> "starts_with", args |-> <<PyStr("a")>>]}
      [] cls = "ExprDateTimeNamespace" ->
            {[m |-> "year", args |-> <<>>],
             [m |-> "to_string", args |-> <<PyStr("%Y")>>]}
      [] cls = "ExprCatNamespace" ->
            {[m |-> "get_categories", args |-> <<>>]}
      [] cls = "ExprNameNamespace" ->
            {[m |-> "keep", args |-> <<>>],
             [m |-> "suffix", args |-> <<PyStr("_s")>>]}

Forward == \E self \in Wrappers : \E c \in ForwardCalls(heap[self].cls) :
    DoS(c.m, self, c.args, Namespace_forward(heap, self, c.m, c.args))

Counts == {0, 1, 2, 4}

StrSliceOp ==
    \E self \in WrappersOf("ExprStringNamespace"), offset \in {-2, 1},
       length \in {PyNone, PyInt(1)} :
        DoS("slice", self, <<PyInt(offset), length>>,
            ExprStringNamespace_slice(heap, self, PyInt(offset), length))

StrHead == \E self \in WrappersOf("ExprStringNamespace"), n \in Counts :
    DoS("head", self, <<PyInt(n)>>, ExprStringNamespace_head(heap, self, n))

StrTail == \E self \in WrappersOf("ExprStringNamespace"), n \in Counts :
    DoS("tail", self, <<PyInt(n)>>, ExprStringNamespace_tail(heap, self, n))

TimeUnits == {PyStr("ns"), PyStr("us"), PyStr("ms"), PyStr("s"), PyStr("NS"), PyNone}

DtTimestamp ==
    \E self \in WrappersOf("ExprDateTimeNamespace"),
       args \in {<<>>} \cup {<<u>> : u \in TimeUnits} :
        DoS("timestamp", self, args,
            ExprDateTimeNamespace_timestamp(heap, self, TimeUnitOf(args)))

TimeZones == {PyNone, PyStr("UTC")}

DtConvertTimeZone ==
    \E self \in WrappersOf("ExprDateTimeNamespace"), time_zone \in TimeZones :
        DoS("convert_time_zone", self, <<time_zone>>,
            ExprDateTimeNamespace_convert_time_zone(heap, self, time_zone))

DtReplaceTimeZone ==
    \E self \in WrappersOf("ExprDateTimeNamespace"), time_zone \in TimeZones :
        DoS("replace_time_zone", self, <<time_zone>>,
            ExprDateTimeNamespace_replace_time_zone(heap, self, time_zone))

SEvaluate == EvaluateOn({1})

NextSub ==
    \/ SCol \/ SWhen \/ SThen
    \/ Str \/ Dt \/ Cat \/ Name
    \/ Forward \/ StrSliceOp \/ StrHead \/ StrTail
    \/ DtTimestamp \/ DtConvertTimeZone \/ DtReplaceTimeZone
    \/ SEvaluate

SpecSub == Init /\ [][NextSub]_vars

(* ------------------ concat_str and replace_strict --------------------- *)
\* The two operations whose arguments are containers, over one column,
\* evaluated on one namespace.

DoA(op, self, args, out) == DoWithin(MaxArgNodes, op, self, args, out)

ACol == Cols = {} /\ DoA("col", 0, <<PyStr("a")>>, col(heap, <<PyStr("a")>>))

\* exprs: an empty list, a list of nodes, one node, a column name
ConcatExprs == {PyList(<<>>), PyStr("a")} \cup Refs \cup {PyList(<<r>>) : r \in Refs}

ConcatStr ==
    \E exprs \in ConcatExprs, more_exprs \in {<<>>} \cup {<<r>> : r \in Refs},
       separator \in {"", "-"} :
        DoA("concat_str", 0, <<exprs>> \o more_exprs,
            concat_str(heap, exprs, more_exprs, separator, FALSE))

Mappings ==
    {PyDict(<<>>),
     PyDict(<<PyTuple(<<PyInt(0), PyStr("zero")>>), PyTuple(<<PyInt(1), PyStr("one")>>)>>)}
OldValues == Mappings \cup {PyList(<<PyInt(0), PyInt(1)>>), PyInt(0)}
NewValues == {PyNone, PyList(<<PyStr("zero"), PyStr("one")>>)}

ReplaceStrict ==
    \E self \in Nodes, old \in OldValues, new \in NewValues :
        DoA("replace_strict", self, <<old, new, PyNone>>,
            Expr_replace_strict(heap, self, old, new, PyNone))

LitValues ==
    {PyInt(3), PyStr("a"), PyNone, PyNdarray(<<PyInt(1)>>), PyNdarray(<<>>),
     PyList(<<PyInt(1)>>), PyList(<<>>), PyTuple(<<PyInt(1), PyInt(2)>>), PyTuple(<<>>)}
        \cup Refs

Lit ==
    \E value \in LitValues, dtype \in {PyNone, PyStr("Int64")} :
        DoA("lit", 0, <<value, dtype>>, lit(heap, value, dtype))

Sample ==
    \E self \in Nodes, n \in {PyNone, PyInt(2)}, fraction \in {PyNone, PyFloat("0.5")},
       with_replacement \in {PyBool(FALSE), PyBool(TRUE)} :
        DoA("sample", self, <<n, fraction, with_replacement, PyNone>>,
            Expr_sample(heap, self, n, fraction, with_replacement, PyNone))

AEvaluate == EvaluateOn({1})

NextArgs == ACol \/ ConcatStr \/ ReplaceStrict \/ Lit \/ Sample \/ AEvaluate

SpecArgs == Init /\ [][NextArgs]_vars

(* ---------------- when(...) given its predicates in a list ------------ *)
\* when(p, q).then(v) and when([p, q]).then(v), evaluated on one namespace.

DoO(op, self, args, out) == DoWithin(MaxOrderNodes, op, self, args, out)

Whens == {i \in Objects : heap[i].cls = "When"}

OCol == Cols = {} /\ DoO("col", 0, <<PyStr("a")>>, col(heap, <<PyStr("a")>>))

OLess == \E self \in Cols, n \in {2, 3} :
    /\ \A p \in Preds : heap[p].args # <<PyInt(n)>>
    /\ DoO("__lt__", self, <<PyInt(n)>>, Expr_binop(heap, "__lt__", self, PyInt(n)))

\* predicates one by one, or all of them in one list or tuple
PredicateArgs ==
    LET seqs == {<<PyRef(p)>> : p \in Preds}
                    \cup {<<PyRef(p), PyRef(q)>> : p \in Preds, q \in Preds}
    IN seqs \cup {<<PyList(ps)>> : ps \in seqs} \cup {<<PyTuple(ps)>> : ps \in seqs}

OWhen == \E predicates \in PredicateArgs :
    DoO("when", 0, predicates, when(heap, predicates))

OThen == \E self \in Whens, value \in Values(5) :
    DoO("then", self, <<value>>, When_then(heap, self, value))

OEvaluate == EvaluateOn({1})

NextOrder == OCol \/ OLess \/ OWhen \/ OThen \/ OEvaluate

SpecOrder == Init /\ [][NextOrder]_vars

(* ------------------- the class of what a method returns --------------- *)
\* Methods, operators and wrapper methods applied to plain nodes and to the
\* Then of when(True).then(5), with otherwise tried on every node.

DoK(op, self, args, out) == DoWithin(MaxClassNodes, op, self, args, out)

\* an object equal to the one the operation would build is already there
Known(out) == \E i \in Objects : heap[i] = out.heap[Len(out.heap)]

KCol == Cols = {} /\ DoK("col", 0, <<PyStr("a")>>, col(heap, <<PyStr("a")>>))

KWhen == /\ Whens = {}
         /\ DoK("when", 0, <<PyBool(TRUE)>>, when(heap, <<PyBool(TRUE)>>))

KThen == \E self \in Whens :
    /\ ~ Known(When_then(heap, self, PyInt(5)))
    /\ DoK("then", self, <<PyInt(5)>>, When_then(heap, self, PyInt(5)))

KAlias == \E self \in Nodes :
    /\ ~ Known(Expr_alias(heap, self, "x"))
    /\ DoK("alias", self, <<PyStr("x")>>, Expr_alias(heap, self, "x"))

KAdd == \E self \in Nodes :
    /\ ~ Known(Expr_binop(heap, "__add__", self, PyInt(1)))
    /\ DoK("__add__", self, <<PyInt(1)>>, Expr_binop(heap, "__add__", self, PyInt(1)))

KCat == \E self \in Nodes :
    Fresh(self, "ExprCatNamespace") /\ DoK("cat", self, <<>>, Expr_cat(heap, self))

KGetCategories == \E self \in WrappersOf("ExprCatNamespace") :
    /\ ~ Known(Namespace_forward(heap, self, "get_categories", <<>>))
    /\ DoK("get_categories", self, <<>>,
           Namespace_forward(heap, self, "get_categories", <<>>))

KOtherwise == \E self \in Nodes :
    DoK("otherwise", self, <<PyInt(6)>>,
        GetAttr(heap, self, {"Then"}, Then_otherwise(heap, self, PyInt(6))))

KEvaluate == EvaluateOn({1})

NextClass ==
    \/ KCol \/ KWhen \/ KThen \/ KAlias \/ KAdd \/ KCat \/ KGetCategories
    \/ KOtherwise \/ KEvaluate

SpecClass == Init /\ [][NextClass]_vars

(* --------------------- the metadata-only Ibis frame ------------------- *)
\* narwhals/_ibis/dataframe.py.  A frame is kept on the heap as
\* Obj("IbisInterchangeFrame", "frame", "", 0, <<_native_frame, _dtypes>>); the
\* native table and the calls made on it are terms, as for the backends above.

\* an ibis table, as the caller hands it in
IbisTable(name) == [cls |-> "ibis.Table", n |-> 0, s |-> name, items |-> <<>>]

\* the module ibis.selectors
IbisSelectors == [cls |-> "module", n |-> 0, s |-> "ibis.selectors", items |-> <<>>]

\* a DTypes object: the dtype classes of one API version
DTypes(version) == [cls |-> "DTypes", n |-> version, s |-> "", items |-> <<>>]

IbisInterchangeFrame_init(h, df, dtypes) ==
    New(h, Obj("IbisInterchangeFrame", "frame", "", 0, <<df, dtypes>>))

\* self.__class__(df, dtypes=self._dtypes)
IbisInterchangeFrame_from_native_frame(h, self, df) ==
    IbisInterchangeFrame_init(h, df, h[self].args[2])

\* a faulty select: positional arguments are not looked at
IbisInterchangeFrame_select_mut(h, self, exprs, named_exprs) ==
    IF Len(named_exprs.items) # 0
    THEN Raise(h, "NotImplementedError")
    ELSE LET t == BackendCall(h[self].args[1], "select",
                              <<BackendCall(IbisSelectors, "cols", exprs)>>)
         IN Out(Append(h, Obj("IbisInterchangeFrame", "frame", "", 0,
                              <<t, h[self].args[2]>>)),
                [NoResult EXCEPT !.kind = "node", !.ref = Len(h) + 1], <<t>>)

\* select(*exprs, **named_exprs); the log holds the native select it made
IbisInterchangeFrame_select(h, self, exprs, named_exprs) ==
    IF Len(named_exprs.items) # 0 \/ ~ \A i \in 1..Len(exprs) : exprs[i].cls = "str"
    THEN Raise(h, "NotImplementedError")
    ELSE LET t == BackendCall(h[self].args[1], "select",
                              <<BackendCall(IbisSelectors, "cols", exprs)>>)
             f == IbisInterchangeFrame_from_native_frame(h, self, t)
         IN Out(f.heap, f.res, <<t>>)

\* frame.<attr> for an attribute the class does not define; the schema is
\* kept as a term over the native schema and the dtypes it is mapped with
IbisInterchangeFrame_getattr(h, self, attr) ==
    IF attr = "schema"
    THEN LET t == BackendCall(h[self].args[1], "schema", <<>>)
         IN Out(h, [NoResult EXCEPT !.kind = "value",
                        !.val = [cls |-> "dict", n |-> 0, s |-> "schema",
                                 items |-> <<t, h[self].args[2]>>]], <<t>>)
    ELSE IF attr = "columns"
    THEN Out(h, [NoResult EXCEPT !.kind = "value",
                     !.val = BackendAttr(h[self].args[1], "columns")], <<>>)
    ELSE Raise(h, "NotImplementedError")

DoI(op, self, args, out) == DoWithin(MaxFrames, op, self, args, out)

IbisFrames == {i \in Objects : heap[i].cls = "IbisInterchangeFrame"}

ICol == Cols = {} /\ DoI("col", 0, <<PyStr("a")>>, col(heap, <<PyStr("a")>>))

IFrame ==
    \E dtypes \in {DTypes(1), DTypes(2)} :
        /\ IbisFrames = {}
        /\ DoI("__init__", 0, <<IbisTable("t"), dtypes>>,
               IbisInterchangeFrame_init(heap, IbisTable("t"), dtypes))

\* what a caller may pass to select: column names, a position, a node
Selectables == {PyStr("a"), PyStr("b"), PyInt(0)} \cup {PyRef(c) : c \in Cols}
SelectArgs ==
    {<<>>} \cup {<<x>> : x \in Selectables}
           \cup {<<x, y>> : x \in Selectables, y \in Selectables}
NamedExprs == {PyDict(<<>>), PyDict(<<PyTuple(<<PyStr("c"), PyStr("a")>>)>>)}

ISelect ==
    \E self \in IbisFrames, exprs \in SelectArgs, named_exprs \in NamedExprs :
        DoI("select", self, <<PyTuple(exprs), named_exprs>>,
            IbisInterchangeFrame_select(heap, self, exprs, named_exprs))

IGetAttr ==
    \E self \in IbisFrames, attr \in {"schema", "columns", "with_columns"} :
        DoI(attr, self, <<>>, IbisInterchangeFrame_getattr(heap, self, attr))

NextIbis == ICol \/ IFrame \/ ISelect \/ IGetAttr

SpecIbis == Init /\ [][NextIbis]_vars

(* ----------------------- the field-plot app: plot() ------------------ *)
\* app.py.  The text of the input box is kept as the value it denotes: a str
\* whose items hold that value, or none when the text is not an expression.

MAX_VALUE == 100000
padding == 1
lres == 10

UserInput(value) == [cls |-> "str", n |-> 0, s |-> "", items |-> <<value>>]
Malformed == PyStr("[(0, 1")

Figure(m, n) == [cls |-> "Figure", n |-> 0, s |-> "", items |-> <<PyInt(m), PyInt(n)>>]

Returns(h, val) == Out(h, [NoResult EXCEPT !.kind = "value", !.val = val], <<>>)

abs(n) == IF n < 0 THEN 0 - n ELSE n

\* abs(q[i]) > MAX_VALUE: "over", "within", or the exception it raises
Exceeds(q, i) ==
    IF q.cls \notin {"list", "tuple"} THEN "TypeError"
    ELSE IF Len(q.items) <= i THEN "IndexError"
    ELSE IF q.items[i + 1].cls # "int" THEN "TypeError"
    ELSE IF abs(q.items[i + 1].n) > MAX_VALUE THEN "over"
    ELSE "within"

\* the body of the loop for one q: the exception it raises, "" for none
CheckRange(q) ==
    LET step(i, rest) ==
            IF Exceeds(q, i) = "over" THEN "ValueError"
            ELSE IF Exceeds(q, i) = "within" THEN rest
            ELSE Exceeds(q, i)
    IN step(0, step(1, step(2, "")))

\* for q in Q: ..., then the all(...) test: the exception raised, "" for none
RECURSIVE CheckAll(_)
CheckAll(qs) ==
    IF Len(qs) = 0 THEN ""
    ELSE IF CheckRange(Head(qs)) # "" THEN CheckRange(Head(qs))
    ELSE CheckAll(Tail(qs))

Validate(Q) ==
    IF Q.cls \notin {"list", "tuple"} THEN "TypeError"
    ELSE IF CheckAll(Q.items) # "" THEN CheckAll(Q.items)
    ELSE IF \A i \in 1..Len(Q.items) :
               Q.items[i].cls = "tuple" /\ Len(Q.items[i].items) = 3
         THEN ""
         ELSE "ValueError"

\* min and max of a list of numbers
min(xs) == CHOOSE x \in {xs[i] : i \in 1..Len(xs)} : \A i \in 1..Len(xs) : x <= xs[i]
max(xs) == CHOOSE x \in {xs[i] : i \in 1..Len(xs)} : \A i \in 1..Len(xs) : x >= xs[i]

\* plot(): None when the try block raised, the exception min raises for an
\* empty list, else the figure over a grid of m by n points
plot(h, user_input) ==
    IF Len(user_input.items) = 0 THEN Returns(h, PyNone)
    ELSE IF Validate(user_input.items[1]) # "" THEN Returns(h, PyNone)
    ELSE LET Q == user_input.items[1]
             x_coords == [i \in 1..Len(Q.items) |-> Q.items[i].items[1].n]
             y_coords == [i \in 1..Len(Q.items) |-> Q.items[i].items[2].n]
         IN IF Len(x_coords) = 0 THEN Raise(h, "ValueError")
            ELSE LET x1 == min(x_coords) - padding
                     x2 == max(x_coords) + padding
                     y1 == min(y_coords) - padding
                     y2 == max(y_coords) + padding
                 IN Returns(h, Figure(lres * (y2 - y1), lres * (x2 - x1)))

Charge(x, y, c) == PyTuple(<<PyInt(x), PyInt(y), PyInt(c)>>)

\* what an item of the input may be: charges in and out of range, tuples of
\* the wrong length, a list, a number, a tuple holding text
Items ==
    {Charge(0, 1, -2), Charge(-3, 2, 1), Charge(100000, 0, 1), Charge(100001, 0, 1),
     Charge(0, -100001, 1), Charge(0, 0, 100001),
     PyTuple(<<PyInt(1), PyInt(2)>>), PyTuple(<<PyInt(1), PyInt(2), PyInt(3), PyInt(4)>>),
     PyList(<<PyInt(0), PyInt(1), PyInt(2)>>), PyInt(5),
     PyTuple(<<PyStr("a"), PyInt(0), PyInt(1)>>)}

RECURSIVE ListsUpTo(_)
ListsUpTo(k) ==
    IF k = 0 THEN {<<>>}
    ELSE ListsUpTo(k - 1) \cup {Append(qs, q) : qs \in ListsUpTo(k - 1), q \in Items}

UserInputs ==
    {Malformed} \cup {UserInput(q) : q \in Items}
                \cup {UserInput(PyList(qs)) : qs \in ListsUpTo(MaxCharges)}

Plot ==
    \E user_input \in UserInputs :
        /\ result' = [plot(heap, user_input).res EXCEPT !.op = "plot",
                                                        !.args = <<user_input>>]
        /\ UNCHANGED <<heap, threads>>

NextPlot == Plot

SpecPlot == Init /\ [][NextPlot]_vars

(* ------------------- evaluation passes, step by step ------------------ *)
\* Two threads evaluate one node, each with its own namespace.  A thread
\* runs the closures as Python does: a stack of invocations of _call, each
\* resolving its operands left to right and then making its backend call.
\* One step is one operand resolved or one backend call made.

\* an invocation of heap[id]._call: k is the operand to resolve next, vals
\* the operands resolved so far
Frame(id) == [id |-> id, k |-> 1, vals |-> <<>>]

\* a faulty order: the operand of a binary operation is resolved before self
Pending_operand_first(h, id) ==
    LET c == h[id] IN
    CASE c.shape \in {"ns", "ns_flat"} -> <<>>
      [] c.shape = "ns_resolve" -> flatten(c.args)
      [] c.shape \in {"raw", "str", "dt", "cat", "name"} -> <<PyRef(c.self)>>
      [] c.shape = "resolve" -> <<c.args[1], PyRef(c.self)>>
      [] c.shape = "filter" -> <<PyRef(c.self)>> \o flatten(c.args)

\* what the closure of h[id] resolves before its backend call, in order:
\* self._call(plx) first, then the operands given to extract_compliant
Pending(h, id) ==
    LET c == h[id] IN
    CASE c.shape \in {"ns", "ns_flat"} -> <<>>
      [] c.shape = "ns_resolve" -> flatten(c.args)
      [] c.shape \in {"raw", "str", "dt", "cat", "name"} -> <<PyRef(c.self)>>
      [] c.shape = "resolve" -> <<PyRef(c.self), c.args[1]>>
      [] c.shape = "filter" -> <<PyRef(c.self)>> \o flatten(c.args)

\* the backend call of the closure of h[id], its operands resolved to vals
Apply(h, id, plx, vals) ==
    LET c == h[id] IN
    CASE c.shape = "ns" -> BackendCall(Namespace(plx), c.method, c.args)
      [] c.shape = "ns_flat" -> BackendCall(Namespace(plx), c.method, flatten(c.args))
      [] c.shape = "ns_resolve" -> BackendCall(Namespace(plx), c.method, vals)
      [] c.shape = "raw" -> BackendCall(vals[1], c.method, c.args)
      [] c.shape \in {"str", "dt", "cat", "name"} ->
            BackendCall(BackendAttr(vals[1], c.shape), c.method, c.args)
      [] c.shape = "resolve" -> BackendCall(vals[1], c.method, <<vals[2]>>)
      [] c.shape = "filter" -> BackendCall(vals[1], c.method, Tail(vals))

\* a faulty pass: the namespace is kept in one place for all threads
PassNamespace_shared(th, t) == th[1].ns

\* plx, the argument of _call: each invocation is handed the namespace of
\* its own pass
PassNamespace(th, t) == th[t].ns

\* a faulty closure: the resolved operand is stored back into the variable
\* the closure captured (other = extract_compliant(plx, other))
Deliver_rebind(h, fr, v) ==
    [heap |-> IF h[fr.id].shape = "resolve" /\ fr.k = 2
              THEN [h EXCEPT ![fr.id].args = <<v>>] ELSE h,
     frame |-> [fr EXCEPT !.vals = Append(@, v), !.k = @ + 1]]

\* a resolved operand reaches the invocation that asked for it; nothing is
\* written to any node
Deliver(h, fr, v) ==
    [heap |-> h, frame |-> [fr EXCEPT !.vals = Append(@, v), !.k = @ + 1]]

NoPass == \A t \in ThreadIds : threads[t].root = 0
AllDone == \A t \in ThreadIds : threads[t].done

\* both threads are handed the same node, and a namespace each
StartBoth ==
    /\ NoPass \/ AllDone
    /\ \E root \in Nodes, nsA \in Namespaces, nsB \in Namespaces :
          threads' = [t \in ThreadIds |->
                        [Idle EXCEPT !.ns = IF t = 1 THEN nsA ELSE nsB,
                                     !.root = root,
                                     !.stack = <<Frame(root)>>,
                                     !.invoked = <<root>>]]
    /\ UNCHANGED <<heap, result>>

\* one thread is handed a node and a namespace
StartOne ==
    /\ threads[1].root = 0 \/ threads[1].done
    /\ \E root \in Nodes, ns \in Namespaces :
          threads' = [threads EXCEPT ![1] =
                        [Idle EXCEPT !.ns = ns, !.root = root,
                                     !.stack = <<Frame(root)>>,
                                     !.invoked = <<root>>]]
    /\ UNCHANGED <<heap, result>>

\* thread t resolves the next operand of its innermost invocation:
\* extract_compliant on a node invokes that node's _call, on a Series takes
\* its compliant series, and hands anything else on as it is
ResolveStep(t) ==
    LET th == threads[t]
        top == Len(th.stack)
        fr == th.stack[top]
        o == Pending(heap, fr.id)[fr.k]
    IN /\ th.root # 0 /\ ~th.done
       /\ fr.k <= Len(Pending(heap, fr.id))
       /\ IF IsExpr(heap, o)
          THEN /\ threads' = [threads EXCEPT ![t].stack = Append(@, Frame(o.n)),
                                              ![t].invoked = Append(@, o.n)]
               /\ UNCHANGED heap
          ELSE LET d == Deliver(heap, fr, IF IsSeries(o) THEN o.items[1] ELSE o)
               IN /\ threads' = [threads EXCEPT ![t].stack[top] = d.frame]
                  /\ heap' = d.heap
       /\ UNCHANGED result

\* thread t makes the backend call of its innermost invocation, which
\* returns to its caller
CallStep(t) ==
    LET th == threads[t]
        top == Len(th.stack)
        fr == th.stack[top]
        v == Apply(heap, fr.id, PassNamespace(threads, t), fr.vals)
    IN /\ th.root # 0 /\ ~th.done
       /\ fr.k > Len(Pending(heap, fr.id))
       /\ IF top = 1
          THEN /\ threads' = [threads EXCEPT ![t].stack = <<>>,
                                              ![t].log = Append(@, v),
                                              ![t].val = v,
                                              ![t].done = TRUE]
               /\ UNCHANGED heap
          ELSE LET d == Deliver(heap, th.stack[top - 1], v)
               IN /\ threads' = [threads EXCEPT
                                    ![t].stack = Append(SubSeq(th.stack, 1, top - 2),
                                                        d.frame),
                                    ![t].log = Append(@, v)]
                  /\ heap' = d.heap
       /\ UNCHANGED result

\* a faulty closure: the call is wrapped in a handler that goes on with None
Propagate_swallow(th, e) ==
    IF Len(th.stack) = 1
    THEN [th EXCEPT !.stack = <<>>, !.done = TRUE, !.val = PyNone]
    ELSE [th EXCEPT !.stack =
            Append(SubSeq(th.stack, 1, Len(th.stack) - 2),
                   [th.stack[Len(th.stack) - 1] EXCEPT !.vals = Append(@, PyNone),
                                                       !.k = @ + 1])]

\* exception e leaves the innermost invocation: no lambda and no
\* extract_compliant has a handler, so every invocation of the pass is left
\* and the caller of the pass receives e
Propagate(th, e) == [th EXCEPT !.stack = <<>>, !.done = TRUE, !.err = e]

BackendErrors == {"ComputeError", "InvalidOperationError"}

\* the backend call of thread t's innermost invocation raises e
RaiseStep(t, e) ==
    LET th == threads[t]
        fr == th.stack[Len(th.stack)]
        v == Apply(heap, fr.id, PassNamespace(threads, t), fr.vals)
        attempted == [th EXCEPT !.log = Append(@, v), !.raised = e,
                                !.failedAt = Len(th.log) + 1]
    IN /\ th.root # 0 /\ ~th.done /\ th.raised = ""
       /\ fr.k > Len(Pending(heap, fr.id))
       /\ threads' = [threads EXCEPT ![t] = Propagate(attempted, e)]
       /\ UNCHANGED <<heap, result>>

DoT(op, self, args, out) == NoPass /\ DoWithin(MaxThreadNodes, op, self, args, out)

TCol == Cols = {} /\ DoT("col", 0, <<PyStr("a")>>, col(heap, <<PyStr("a")>>))

TAlias == \E self \in Nodes :
    DoT("alias", self, <<PyStr("x")>>, Expr_alias(heap, self, "x"))

TBinary == \E self \in Nodes, other \in Refs \cup {PySeries("s")} :
    DoT("__add__", self, <<other>>, Expr_binop(heap, "__add__", self, other))

Resolve == \E t \in ThreadIds : ResolveStep(t)

Calls == \E t \in ThreadIds : CallStep(t)

NextThreads == TCol \/ TAlias \/ TBinary \/ StartBoth \/ Resolve \/ Calls

SpecThreads == Init /\ [][NextThreads]_vars

\* one pass at a time, over a backend whose calls may raise
Raises == \E t \in ThreadIds, e \in BackendErrors : RaiseStep(t, e)

NextFail == TCol \/ TAlias \/ TBinary \/ StartOne \/ Resolve \/ Calls \/ Raises

SpecFail == Init /\ [][NextFail]_vars

(* ------------------------------- claims ------------------------------- *)

Constructed == result.kind \in {"node", "raise"}
Evaluated == result.kind = "value"

\* the arguments a backend call received (its receiver left out)
CallArgs(t) == Tail(t.items)

C2_ReceiverUnchanged ==
    [][Constructed' =>
          /\ Len(heap') >= Len(heap)
          /\ (result'.kind = "node" => result'.ref = Len(heap) + 1)
          /\ \A i \in 1..Len(heap) :
                /\ heap'[i] = heap[i]
                /\ heap[i].cls \in {"Expr", "Then"} =>
                      \A ns \in Namespaces : Call(heap', i, ns) = Call(heap, i, ns)]_vars

\* a node that was the receiver of a cast is evaluated afterwards
C2_Witness ==
    /\ Evaluated
    /\ \E j \in 1..Len(heap) : heap[j].method = "cast" /\ heap[j].self = result.ref

\* C3: the operand of a binary operation reaches the backend resolved by the
\* three-way split: a node is replaced by the result of its own call on the
\* namespace of the pass, a Series by its compliant series, anything else is
\* passed as it is; every call of the pass lands on the namespace passed in.
C3_ExtractCompliant ==
    (Evaluated /\ heap[result.ref].shape = "resolve") =>
        LET other == heap[result.ref].args[1]
            got == CallArgs(result.val)[1]
        IN /\ IsExpr(heap, other) =>
                 /\ got = Call(heap, other.n, result.ns).val
                 /\ got.cls = "Compliant"
                 /\ got.n = result.ns
           /\ (~IsExpr(heap, other) /\ IsSeries(other)) => got = other.items[1]
           /\ (~IsExpr(heap, other) /\ ~IsSeries(other)) => got = other
           /\ \A i \in 1..Len(result.log) : result.log[i].n = result.ns

\* a binary node whose operand is a node has been evaluated on namespace 2
C3_Witness ==
    /\ Evaluated
    /\ result.ns = 2
    /\ heap[result.ref].shape = "resolve"
    /\ IsExpr(heap, heap[result.ref].args[1])

\* C4: in an evaluation no backend method receives an unresolved node or an
\* unextracted Series as an operand.
C4_OperandsResolved ==
    Evaluated =>
        \A i \in 1..Len(result.log) :
            \A j \in 1..Len(CallArgs(result.log[i])) :
                LET a == CallArgs(result.log[i])[j]
                IN ~IsExpr(heap, a) /\ ~IsSeries(a)

\* the column an operand of the builder stands for, on namespace 1 over f
OperandColumn(v, f) ==
    IF IsExpr(heap, v) THEN Interp(Call(heap, v.n, 1).val, f).vals
    ELSE ArgColumn(v, f)

\* every predicate holds on row i
AllHold(preds, f, i) ==
    \A k \in 1..Len(preds) : OperandColumn(preds[k], f)[i] = <<1>>

\* C5: on the reference backend and on every row, when(p1, ..., pk).then(v)
\* .otherwise(w) is v where all predicates hold and w elsewhere; without
\* otherwise it is v where all predicates hold and null elsewhere.  With
\* a = [1, 2, 3]: when(a < 3).then(5).otherwise(6) is [5, 5, 6], and without
\* the otherwise, [5, 5, null].
C5_WhenThenOtherwise ==
    Evaluated =>
        LET node == heap[result.ref]
            got(f) == Interp(result.val, f).vals
            example == [a |-> <<1, 2, 3>>]
            lt3(when_) ==
                /\ Len(when_.args) = 1
                /\ IsExpr(heap, when_.args[1])
                /\ heap[when_.args[1].n].method = "__lt__"
                /\ heap[when_.args[1].n].args = <<PyInt(3)>>
        IN /\ node.shape = "then" =>
                /\ \A f \in Frames : \A i \in Rows(f) :
                      got(f)[i] = IF AllHold(heap[node.self].args, f, i)
                                  THEN OperandColumn(node.args[1], f)[i]
                                  ELSE Null
                /\ (lt3(heap[node.self]) /\ node.args = <<PyInt(5)>>) =>
                      got(example) = << <<5>>, <<5>>, Null >>
           /\ (node.method = "otherwise" /\ heap[node.self].shape = "then") =>
                LET th == heap[node.self] IN
                /\ \A f \in Frames : \A i \in Rows(f) :
                      got(f)[i] = IF AllHold(heap[th.self].args, f, i)
                                  THEN OperandColumn(th.args[1], f)[i]
                                  ELSE OperandColumn(node.args[1], f)[i]
                /\ (lt3(heap[th.self]) /\ th.args = <<PyInt(5)>>
                      /\ node.args = <<PyInt(6)>>) =>
                      got(example) = << <<5>>, <<5>>, <<6>> >>

\* when(a < 3).then(5).otherwise(6) has been evaluated: [5, 5, 6] on a = [1, 2, 3]
C5_Witness ==
    /\ Evaluated
    /\ heap[result.ref].method = "otherwise"
    /\ heap[result.ref].args = <<PyInt(6)>>
    /\ heap[heap[result.ref].self].shape = "then"
    /\ Len(heap[heap[heap[result.ref].self].self].args) = 1
    /\ Interp(result.val, [a |-> <<1, 2, 3>>]).vals = << <<5>>, <<5>>, <<6>> >>

\* the stage of the builder an object is in
Rank(cls) == CASE cls = "When" -> 0 [] cls = "Then" -> 1 [] OTHER -> 2

C7_FillNullValidation ==
    result.op = "fill_null" =>
        LET value == result.args[1]
            strategy == result.args[2]
            bad == \/ (value # PyNone /\ strategy # PyNone)
                   \/ (value = PyNone /\ strategy = PyNone)
                   \/ (strategy # PyNone
                         /\ strategy \notin {PyStr("forward"), PyStr("backward")})
        IN /\ bad => (result.kind = "raise" /\ result.err = "ValueError"
                        /\ result.log = <<>>)
           /\ ~bad => result.kind = "node"

\* fill_null called with neither a value nor a strategy has raised
C7_Witness ==
    /\ result.op = "fill_null"
    /\ result.args[1] = PyNone
    /\ result.args[2] = PyNone
    /\ result.kind = "raise"

\* C8: is_in raises when its argument is a string, a bytes value, a node or
\* any value that is not iterable, and returns a node for a non-string
\* iterable.
C8_IsInValidation ==
    result.op = "is_in" =>
        LET other == result.args[1]
            bad == \/ other.cls \in {"str", "bytes"}
                   \/ IsExpr(heap, other)
                   \/ ~IsIterable(other)
        IN /\ bad => result.kind = "raise"
           /\ ~bad => result.kind = "node"

\* is_in called with a string has raised
C8_Witness ==
    /\ result.op = "is_in"
    /\ result.args[1].cls = "str"
    /\ result.kind = "raise"

\* an iterable that holds nodes
HoldsExpr(h, v) ==
    v.cls \in {"list", "tuple"} /\ \E i \in 1..Len(v.items) : IsExpr(h, v.items[i])

\* C9: is_in given an iterable that contains nodes fails when the node is
\* built.
C9_IsInRejectsIterableOfExprs ==
    (result.op = "is_in" /\ HoldsExpr(heap, result.args[1])) => result.kind = "raise"

\* C10: each horizontal reduction raises when called with no argument,
\* building nothing and calling no backend, and returns a node when given at
\* least one argument.
C10_HorizontalNeedsArgument ==
    result.op \in HorizontalOps =>
        /\ Len(result.args) = 0 =>
              (result.kind = "raise" /\ result.err = "ValueError"
                 /\ result.ref = 0 /\ result.log = <<>>)
        /\ Len(result.args) >= 1 =>
              (result.kind = "node" /\ heap[result.ref].method = result.op)

\* sum_horizontal() has raised
C10_Witness ==
    /\ result.op = "sum_horizontal"
    /\ Len(result.args) = 0
    /\ result.kind = "raise"

\* the operands concat_str was given amount to no expression at all
NoOperands(args) ==
    /\ Len(args) = 1
    /\ args[1].cls \in {"list", "tuple"}
    /\ Len(args[1].items) = 0

\* C11: concat_str given an empty iterable as exprs and no more_exprs fails
\* when it is called: it raises, returns no node and calls no backend.
C11_ConcatStrNeedsOperand ==
    (result.op = "concat_str" /\ NoOperands(result.args)) =>
        (result.kind = "raise" /\ result.log = <<>>)

\* what the backend's replace_strict receives from the node just built
ReplaceCall == CallArgs(Call(heap, result.ref, 1).val)

\* old and new as the backend receives them are the keys and the values of
\* mapping m, index by index
Unpacked(m) ==
    LET old == ReplaceCall[1]
        new == ReplaceCall[2]
    IN /\ old.cls = "list" /\ new.cls = "list"
       /\ old # m
       /\ Len(old.items) = Len(m.items) /\ Len(new.items) = Len(old.items)
       /\ \A i \in 1..Len(old.items) :
             m.items[i] = PyTuple(<<old.items[i], new.items[i]>>)

C13_ReplaceStrictNeedsNew ==
    (result.op = "replace_strict" /\ result.args[2] = PyNone
       /\ ~IsMapping(result.args[1])) =>
        /\ result.kind = "raise" /\ result.err = "TypeError"
        /\ result.ref = 0 /\ result.log = <<>>

\* replace_strict([0, 1]) has raised
C13_Witness ==
    /\ result.op = "replace_strict"
    /\ result.args[1].cls = "list"
    /\ result.args[2] = PyNone
    /\ result.kind = "raise"

\* the column the node just returned evaluates to, on namespace 1 over f
Built(f) == Interp(Call(heap, result.ref, 1).val, f)

\* the column node j evaluates to, on namespace 1 over f
ColumnOf(j, f) == Interp(Call(heap, j, 1).val, f)

\* C14: on the reference backend, the node returned by alias(name) evaluates
\* to a column named name whatever the chain it was called on (so the last
\* alias of a chain gives the name), with the cells of its receiver; called
\* on a node that alias(name) itself returned, it evaluates to the same
\* column, cells and name, as its receiver.
C14_LastAliasNames ==
    (result.op = "alias" /\ result.kind = "node") =>
        \A f \in Frames :
            /\ Built(f).name = result.args[1].s
            /\ Built(f).vals = ColumnOf(result.self, f).vals
            /\ (heap[result.self].method = "alias"
                  /\ heap[result.self].args = result.args) =>
                     Built(f) = ColumnOf(result.self, f)

\* a node aliased to "x" and then to "y" has been evaluated: its name is "y"
C14_Witness ==
    /\ Evaluated
    /\ heap[result.ref].method = "alias"
    /\ heap[result.ref].args = <<PyStr("y")>>
    /\ heap[heap[result.ref].self].method = "alias"
    /\ heap[heap[result.ref].self].args = <<PyStr("x")>>
    /\ Interp(result.val, [a |-> <<1, 2, 3>>]).name = "y"

\* the nodes built as e.cast(T).alias(x), where cast(T).alias(x) are the two
\* steps the node just returned was built by in the other order
Commuted ==
    {j \in Nodes :
        /\ heap[j].method = "alias"
        /\ heap[j].args = heap[result.self].args
        /\ heap[heap[j].self].method = "cast"
        /\ heap[heap[j].self].args = result.args
        /\ heap[heap[j].self].self = heap[result.self].self}

\* expr.alias(x).cast(T) has just been built
AliasThenCast ==
    /\ result.op = "cast" /\ result.kind = "node"
    /\ heap[result.self].method = "alias"

WrapperMethodActed ==
    /\ result.kind = "node"
    /\ result.self # 0
    /\ heap[result.self].shape = "wrapper"

\* C16: the node a wrapper method returns evaluates by calling, on the
\* sub-object (str, dt, cat, name) of the evaluated owning node, the backend
\* operation of the method's own name with the caller's arguments; str.head
\* and str.tail included.
C16_ForwardsUnderOwnName ==
    WrapperMethodActed =>
        LET t == Call(heap, result.ref, 1).val
            owner == heap[result.self].self
        IN /\ t.s = result.op
           /\ t.items[1] = BackendAttr(Call(heap, owner, 1).val,
                                       SubOf(heap[result.self].cls))
           /\ CallArgs(t) = result.args

\* C17: on the reference backend, for every string s and every n >= 0,
\* str.head(n) evaluates to the first min(n, len(s)) characters of s and
\* str.tail(n) to the last min(n, len(s)) characters; tail(0) is empty.
C17_HeadTailByCount ==
    (WrapperMethodActed /\ heap[result.self].cls = "ExprStringNamespace"
       /\ result.op \in {"head", "tail"} /\ result.args[1].n >= 0) =>
        \A s \in Strings :
            LET t == Call(heap, result.ref, 1).val
                k == Min(result.args[1].n, Len(s))
            IN /\ t.s = "slice"
               /\ ApplySlice(t, s) = IF result.op = "head" THEN SubSeq(s, 1, k)
                                     ELSE SubSeq(s, Len(s) - k + 1, Len(s))

\* C18: an accessor returns a wrapper of its own class whose _expr is the
\* node it was called on; a method of a wrapper returns a node of the class
\* of the wrapper's _expr, never a wrapper, whose call goes through that
\* _expr; neither changes an existing object, and the owning node evaluates
\* as before.
C18_WrapperReturnsNode ==
    [][(Constructed' /\ result'.kind = "node") =>
          /\ \A i \in 1..Len(heap) : heap'[i] = heap[i]
          /\ result'.op \in {"str", "dt", "cat", "name"} =>
                /\ heap'[result'.ref].shape = "wrapper"
                /\ heap'[result'.ref].cls \in WrapperClasses
                /\ SubOf(heap'[result'.ref].cls) = result'.op
                /\ heap'[result'.ref].self = result'.self
          /\ (result'.self # 0 /\ heap[result'.self].shape = "wrapper") =>
                LET owner == heap[result'.self].self
                    node == heap'[result'.ref]
                IN /\ node.cls = heap[owner].cls
                   /\ node.cls \in {"Expr", "Then"}
                   /\ node.shape # "wrapper"
                   /\ node.self = owner
                   /\ Call(heap', owner, 1) = Call(heap, owner, 1)]_vars

\* a method of the str wrapper of a Then has returned a Then
C18_Witness ==
    /\ WrapperMethodActed
    /\ heap[result.self].cls = "ExprStringNamespace"
    /\ heap[heap[result.self].self].cls = "Then"
    /\ heap[result.ref].cls = "Then"

\* the objects a backend hands out: namespaces, compliant expressions and
\* their sub-objects; n is the namespace they come from
BackendClasses == {"Namespace", "Compliant", "CompliantSub"}

RECURSIVE Rebase(_, _)
RECURSIVE Derived(_, _)

\* value t with namespace `from` renamed to 0 throughout: what a pass did,
\* apart from which namespace it was given
Rebase(t, from) ==
    [t EXCEPT !.n = IF t.cls \in BackendClasses /\ t.n = from THEN 0 ELSE t.n,
              !.items = [i \in 1..Len(t.items) |-> Rebase(t.items[i], from)]]

\* every backend object in value t, at any depth, comes from namespace ns
Derived(t, ns) ==
    /\ t.cls \in BackendClasses => t.n = ns
    /\ \A i \in 1..Len(t.items) : Derived(t.items[i], ns)

\* the calls of thread t's pass, and its result, apart from the namespace
PassOf(t) ==
    [log |-> [i \in 1..Len(threads[t].log) |-> Rebase(threads[t].log[i], threads[t].ns)],
     val |-> Rebase(threads[t].val, threads[t].ns)]

\* the root being evaluated has a node among its operands
NestedRoot ==
    /\ threads[1].root # 0
    /\ heap[threads[1].root].shape = "resolve"
    /\ IsExpr(heap, heap[threads[1].root].args[1])

\* C19: no step of an evaluation pass changes any node; two passes over the
\* same node, on the same or on different namespaces, one after the other
\* or interleaved, and after any number of earlier passes, make the same
\* backend calls in the same order with the same arguments and return the
\* same result, each on the namespace it was given.
C19_PassesRepeatable ==
    [][(threads' # threads) =>
          /\ heap' = heap
          /\ AllDone' =>
                /\ PassOf(1)' = PassOf(2)'
                /\ \A t \in ThreadIds :
                      \A i \in 1..Len(threads'[t].log) :
                          threads'[t].log[i].n = threads'[t].ns]_vars

\* two passes over a node with a nested operand node have completed
C19_Witness ==
    /\ AllDone
    /\ NestedRoot
    /\ Len(threads[1].log) >= 3
    /\ PassOf(1) = PassOf(2)

\* C20: while two threads evaluate the same node on two different
\* namespaces, under every interleaving, every call a thread has made lands
\* on its own namespace and every object in its arguments comes from that
\* namespace; once a thread is done, its calls and its result are those of
\* a solo run of the node on its namespace.
C20_ConcurrentPassesIsolated ==
    (threads[1].root # 0 /\ threads[1].ns # threads[2].ns) =>
        \A t \in ThreadIds :
            LET th == threads[t]
                solo == Call(heap, th.root, th.ns)
            IN /\ \A i \in 1..Len(th.log) :
                     /\ Derived(th.log[i], th.ns)
                     /\ th.log[i] = solo.log[i]
               /\ th.done => (th.log = solo.log /\ th.val = solo.val)

\* both threads are in the middle of their pass over a node with a nested
\* operand node, on different namespaces
C20_Witness ==
    /\ NestedRoot
    /\ threads[1].ns # threads[2].ns
    /\ \A t \in ThreadIds :
          /\ ~threads[t].done
          /\ threads[t].log # <<>>
          /\ Len(threads[t].stack) >= 2

\* C21: once a backend call of a pass has raised, the pass is over: that
\* call is the last one attempted (no later call, no retry), no value is
\* returned in its place, and the caller receives the error the backend
\* raised.
C21_BackendErrorPropagates ==
    \A t \in ThreadIds :
        threads[t].raised # "" =>
            /\ threads[t].done
            /\ threads[t].stack = <<>>
            /\ threads[t].err = threads[t].raised
            /\ threads[t].val = PyNone
            /\ Len(threads[t].log) = threads[t].failedAt

\* the first call of a pass over a binary node succeeded and a later one,
\* made by a nested invocation, raised
C21_Witness ==
    /\ threads[1].raised = "ComputeError"
    /\ threads[1].err = "ComputeError"
    /\ heap[threads[1].root].shape = "resolve"
    /\ threads[1].failedAt = 2
    /\ Len(Call(heap, threads[1].root, threads[1].ns).log) >= 3

RECURSIVE Occurrences(_, _)
RECURSIVE OperandOccurrences(_, _)

\* the node occurrences of the operands, left to right
OperandOccurrences(h, operands) ==
    IF Len(operands) = 0 THEN <<>>
    ELSE (IF IsExpr(h, Head(operands)) THEN Occurrences(h, Head(operands).n) ELSE <<>>)
         \o OperandOccurrences(h, Tail(operands))

\* the node occurrences of the expression tree of node id: the node, then
\* the tree of self, then the trees of the operands
Occurrences(h, id) ==
    <<id>> \o (IF h[id].self # 0 THEN Occurrences(h, h[id].self) ELSE <<>>)
           \o OperandOccurrences(h, h[id].args)

\* how many times x is in sequence q
Times(q, x) == Cardinality({i \in 1..Len(q) : q[i] = x})

\* C27: a finished pass over a root has invoked the stored call of every
\* node occurrence of its tree exactly once, a node before the tree of its
\* self and that before the trees of its operands; a node that occurs k
\* times in the tree has been invoked k times.
C27_EachOccurrenceInvokedOnce ==
    \A t \in ThreadIds :
        threads[t].done =>
            /\ threads[t].invoked = Occurrences(heap, threads[t].root)
            /\ \A j \in Nodes :
                  Times(threads[t].invoked, j) =
                      Times(Occurrences(heap, threads[t].root), j)

\* a pass over a + a is done: the node a was invoked twice
C27_Witness ==
    /\ threads[1].done
    /\ heap[threads[1].root].shape = "resolve"
    /\ heap[threads[1].root].args[1] = PyRef(heap[threads[1].root].self)
    /\ Times(threads[1].invoked, heap[threads[1].root].self) = 2

\* a method of a dt wrapper has just been called
DtMethodCalled(m) ==
    /\ result.op = m
    /\ result.self # 0
    /\ heap[result.self].cls = "ExprDateTimeNamespace"

\* C22: dt.timestamp raises ValueError when it is called with a unit other
\* than "ns", "us", "ms", building nothing; for each of the three, and for
\* the default, "us", it returns a node whose evaluation calls the backend's
\* dt.timestamp with that very unit.
C22_TimestampUnit ==
    DtMethodCalled("timestamp") =>
        LET unit == IF Len(result.args) = 0 THEN PyStr("us") ELSE result.args[1]
        IN IF unit.cls = "str" /\ unit.s \in {"ns", "us", "ms"}
           THEN /\ result.kind = "node"
                /\ Call(heap, result.ref, 1).val.s = "timestamp"
                /\ CallArgs(Call(heap, result.ref, 1).val) = <<unit>>
           ELSE /\ result.kind = "raise" /\ result.err = "ValueError"
                /\ result.ref = 0 /\ result.log = <<>>

\* dt.timestamp("s") has raised
C22_Witness ==
    /\ DtMethodCalled("timestamp")
    /\ result.args = <<PyStr("s")>>
    /\ result.kind = "raise"

\* C23: dt.convert_time_zone(None) raises TypeError when it is called,
\* building nothing; dt.replace_time_zone(None) returns a node whose
\* evaluation calls the backend's dt.replace_time_zone with None.
C23_ConvertTimeZoneNeedsZone ==
    /\ (DtMethodCalled("convert_time_zone") /\ result.args = <<PyNone>>) =>
          /\ result.kind = "raise" /\ result.err = "TypeError"
          /\ result.ref = 0 /\ result.log = <<>>
    /\ (DtMethodCalled("replace_time_zone") /\ result.args = <<PyNone>>) =>
          /\ result.kind = "node"
          /\ Call(heap, result.ref, 1).val.s = "replace_time_zone"
          /\ CallArgs(Call(heap, result.ref, 1).val) = <<PyNone>>

\* dt.convert_time_zone(None) has raised
C23_Witness ==
    /\ DtMethodCalled("convert_time_zone")
    /\ result.args = <<PyNone>>
    /\ result.kind = "raise"

\* C24: lit(value, dtype) raises when it is called, touching no backend, if
\* value is a numpy array, a list or a tuple; for any other value it returns
\* a node whose evaluation is the single call plx.lit(value, dtype).
C24_LitRejectsArraysAndNested ==
    result.op = "lit" =>
        IF result.args[1].cls \in {"ndarray", "list", "tuple"}
        THEN /\ result.kind = "raise"
             /\ result.err \in {"ValueError", "NotImplementedError"}
             /\ result.ref = 0 /\ result.log = <<>>
        ELSE /\ result.kind = "node" /\ result.log = <<>>
             /\ \A plx \in Namespaces :
                   Call(heap, result.ref, plx).log =
                       <<BackendCall(Namespace(plx), "lit", result.args)>>

\* lit of a tuple has raised
C24_Witness ==
    /\ result.op = "lit"
    /\ result.args[1] = PyTuple(<<PyInt(1), PyInt(2)>>)
    /\ result.kind = "raise"

\* C28: sample given both n and fraction raises when it is called, building
\* no node and touching no backend.
C28_SampleRejectsBoth ==
    (/\ result.op = "sample"
     /\ result.args[1] # PyNone
     /\ result.args[2] # PyNone) =>
        (result.kind = "raise" /\ result.ref = 0 /\ result.log = <<>>)

\* a select on an Ibis frame is the step being taken
SelectStep ==
    /\ result' # result
    /\ result'.op = "select"
    /\ result'.self \in IbisFrames

\* the native select that frame `self` makes for the names `exprs`
NativeSelection(self, exprs) ==
    BackendCall(heap[self].args[1], "select", <<BackendCall(IbisSelectors, "cols", exprs)>>)

\* C25: select on an Ibis frame raises NotImplementedError, making no native
\* call, when a keyword expression is given or a positional argument is not
\* a string; otherwise it makes one native select of those names and
\* returns a new frame holding that selection and the dtypes of the frame it
\* was called on.  Either way every object that existed stays as it was.
C25_IbisSelectByNameOnly ==
    [][SelectStep =>
        LET exprs == result'.args[1].items
            named_exprs == result'.args[2]
        IN /\ \A i \in Objects : heap'[i] = heap[i]
           /\ IF \/ Len(named_exprs.items) # 0
                 \/ \E i \in 1..Len(exprs) : exprs[i].cls # "str"
              THEN /\ result'.kind = "raise"
                   /\ result'.err = "NotImplementedError"
                   /\ result'.log = <<>>
                   /\ heap' = heap
              ELSE /\ result'.kind = "node"
                   /\ result'.ref = Len(heap) + 1
                   /\ Len(heap') = Len(heap) + 1
                   /\ heap'[result'.ref].cls = "IbisInterchangeFrame"
                   /\ heap'[result'.ref].args[1] = NativeSelection(result'.self, exprs)
                   /\ heap'[result'.ref].args[2] = heap[result'.self].args[2]
                   /\ result'.log = <<NativeSelection(result'.self, exprs)>>]_vars

\* a selection has been built, and a select by position refused on it
C25_Witness ==
    /\ result.op = "select"
    /\ result.kind = "raise"
    /\ result.args[1] = PyTuple(<<PyStr("a"), PyInt(0)>>)
    /\ result.args[2] = PyDict(<<>>)
    /\ \E i \in IbisFrames : heap[i].args[1].cls = "Compliant"

\* the items of nested lists and tuples, in order
RECURSIVE Flattened(_)
Flattened(items) ==
    IF Len(items) = 0 THEN <<>>
    ELSE (IF Head(items).cls \in {"list", "tuple"} THEN Flattened(Head(items).items)
          ELSE <<Head(items)>>) \o Flattened(Tail(items))

\* C26: then(value) on when(*predicates) resolves nothing when it is called;
\* evaluating the node it returns resolves the predicates, taken out of
\* nested lists and tuples, in the order given, then calls the namespace's
\* when once with exactly those resolved predicates, then resolves value,
\* then calls then on what when returned.
C26_WhenThenOrder ==
    (result.op = "then" /\ result.kind = "node" /\ result.self \in Whens) =>
        /\ result.log = <<>>
        /\ \A plx \in Namespaces :
              LET p == ResolveAll(heap, plx, Flattened(heap[result.self].args))
                  w == BackendCall(Namespace(plx), "when", p.vals)
                  v == extract_compliant(heap, plx, result.args[1])
                  t == BackendCall(w, "then", <<v.val>>)
              IN Call(heap, result.ref, plx) = Ret(t, p.log \o <<w>> \o v.log \o <<t>>)

\* a method has just been called on a node, or on the wrapper of a node
MethodStep(ops) ==
    /\ result' # result
    /\ result'.op \in ops
    /\ result'.self \in Objects

\* C29: alias, an operator and a wrapper method applied to a node return a
\* node of the class of that node, so a Then stays a Then; otherwise on a
\* Then returns a plain Expr whose evaluation calls the backend's otherwise
\* on what the Then evaluates to (for a Then made by alias, on the result of
\* the backend's alias), and no plain Expr has an otherwise.
C29_ClassPreserved ==
    [][/\ MethodStep({"alias", "__add__"}) =>
            /\ result'.kind = "node"
            /\ heap'[result'.ref].cls = heap[result'.self].cls
       /\ MethodStep({"get_categories"}) =>
            /\ result'.kind = "node"
            /\ heap'[result'.ref].cls = heap[heap[result'.self].self].cls
       /\ MethodStep({"otherwise"}) =>
            IF heap[result'.self].cls = "Then"
            THEN /\ result'.kind = "node"
                 /\ heap'[result'.ref].cls = "Expr"
                 /\ \A plx \in Namespaces :
                       LET r == Call(heap, result'.self, plx)
                           t == BackendCall(r.val, "otherwise", result'.args)
                       IN /\ Call(heap', result'.ref, plx) = Ret(t, r.log \o <<t>>)
                          /\ heap[result'.self].method \in {"alias", "__add__", "get_categories"}
                                => r.val.s = heap[result'.self].method
            ELSE /\ result'.kind = "raise"
                 /\ result'.err = "AttributeError"
                 /\ heap' = heap]_vars

\* when(True).then(5).alias("x").otherwise(6) has been built
C29_Witness ==
    /\ result.op = "otherwise"
    /\ result.kind = "node"
    /\ heap[result.self].cls = "Then"
    /\ heap[result.self].method = "alias"
    /\ heap[heap[result.self].self].shape = "then"
    /\ heap[result.ref].cls = "Expr"

\* Q is a non-empty list or tuple of 3-tuples of numbers within MAX_VALUE
WellFormed(Q) ==
    /\ Q.cls \in {"list", "tuple"}
    /\ Len(Q.items) > 0
    /\ \A i \in 1..Len(Q.items) :
          /\ Q.items[i].cls = "tuple"
          /\ Len(Q.items[i].items) = 3
          /\ \A j \in 1..3 :
                /\ Q.items[i].items[j].cls = "int"
                /\ Q.items[i].items[j].n <= MAX_VALUE
                /\ Q.items[i].items[j].n >= 0 - MAX_VALUE

\* C30: plot() never raises; it returns no figure for a text that does not
\* evaluate, for an item that is not a 3-tuple and for a coordinate or
\* charge above 100000 in absolute value; it returns a figure, over a grid
\* with at least one point each way, only for a non-empty collection of
\* in-range 3-tuples.
C30_PlotNeverRaises ==
    result.op = "plot" =>
        LET user_input == result.args[1] IN
        /\ result.kind = "value"
        /\ IF Len(user_input.items) = 1 /\ WellFormed(user_input.items[1])
           THEN /\ result.val.cls = "Figure"
                /\ result.val.items[1].n > 0 /\ result.val.items[2].n > 0
           ELSE result.val = PyNone

====
